---- MODULE Spec2Model ----
(***************************************************************************)
(* Model of app.py: a currency converter with a short-TTL cache of the    *)
(* USD rate table, a two-endpoint fetch with fallback, and a cross-rate   *)
(* computation, driven by three form handlers (Convert, Swap, Refresh).   *)
(*                                                                         *)
(* Strings are sequences of one-character strings, so that strip(),        *)
(* lower(), upper() and sorted() are computed and not assumed.             *)
(* Python floats are modelled as binary floating-point numbers m * 2^e     *)
(* with a MantBits-bit mantissa and round-half-even, so that division and  *)
(* multiplication round as they do in the program (with fewer bits).       *)
(***************************************************************************)
EXTENDS Integers, Sequences, FiniteSets, TLC

----------------------------------------------------------------------------
(* Bounds of the model *)

\* bits of mantissa of the modelled floats (53 in CPython)
MantBits == 10

\* time.time() when the process starts, in seconds
Now0 == 1000

\* the clock is not advanced beyond this value
MaxNow == 1300

\* the amounts by which the clock advances between two handler calls
TickSteps == {100, 200}

----------------------------------------------------------------------------
(* Characters and strings *)

\* the characters of the model in code-point order
Chars ==
  << " ", "-", "0", "1", "2", "3", "4", "5", "6", "7", "8", "9",
     "A", "B", "C", "D", "E", "F", "G", "H", "I", "J", "K", "L", "M",
     "N", "O", "P", "Q", "R", "S", "T", "U", "V", "W", "X", "Y", "Z",
     "a", "b", "c", "d", "e", "f", "g", "h", "i", "j", "k", "l", "m",
     "n", "o", "p", "q", "r", "s", "t", "u", "v", "w", "x", "y", "z" >>

CharSet == {Chars[i] : i \in 1..Len(Chars)}

\* ord(c)
Ord == [c \in CharSet |-> CHOOSE i \in 1..Len(Chars) : Chars[i] = c]

IsUpperChar(c) == Ord[c] >= Ord["A"] /\ Ord[c] <= Ord["Z"]

IsLowerChar(c) == Ord[c] >= Ord["a"] /\ Ord[c] <= Ord["z"]

IsDigit(c) == Ord[c] >= Ord["0"] /\ Ord[c] <= Ord["9"]

LowerChar == [c \in CharSet |-> IF IsUpperChar(c) THEN Chars[Ord[c] + 26] ELSE c]

UpperChar == [c \in CharSet |-> IF IsLowerChar(c) THEN Chars[Ord[c] - 26] ELSE c]

\* str.lower()
Lower(s) == [i \in 1..Len(s) |-> LowerChar[s[i]]]

\* str.upper()
Upper(s) == [i \in 1..Len(s) |-> UpperChar[s[i]]]

RECURSIVE LStrip(_)
LStrip(s) == IF s # <<>> /\ Head(s) = " " THEN LStrip(Tail(s)) ELSE s

RECURSIVE RStrip(_)
RStrip(s) ==
  IF s # <<>> /\ s[Len(s)] = " " THEN RStrip(SubSeq(s, 1, Len(s) - 1)) ELSE s

\* str.strip()
Strip(s) == RStrip(LStrip(s))

\* s < t for Python strings: lexicographic by code point
RECURSIVE StrLess(_, _)
StrLess(s, t) ==
  IF t = <<>> THEN FALSE
  ELSE IF s = <<>> THEN TRUE
  ELSE IF Head(s) # Head(t) THEN Ord[Head(s)] < Ord[Head(t)]
  ELSE StrLess(Tail(s), Tail(t))

\* sorted(S) for a set of strings
RECURSIVE Sorted(_)
Sorted(S) ==
  IF S = {} THEN <<>>
  ELSE LET least == CHOOSE x \in S : \A y \in S \ {x} : StrLess(x, y)
       IN  <<least>> \o Sorted(S \ {least})

\* a Python value that is either None or a string
NoneStr == [none |-> TRUE, s |-> <<>>]

Str(s) == [none |-> FALSE, s |-> s]

\* (x or "")
OrEmpty(x) == IF x.none \/ x.s = <<>> THEN <<>> ELSE x.s

----------------------------------------------------------------------------
(* Floats: [m, e] stands for m * 2^e; m = 0, or 2^(MantBits-1) <= |m| <    *)
(* 2^MantBits                                                              *)

RECURSIVE Pow2(_)
Pow2(k) == IF k = 0 THEN 1 ELSE 2 * Pow2(k - 1)

Abs(x) == IF x < 0 THEN 0 - x ELSE x

FZero == [m |-> 0, e |-> 0]

\* the mantissa m of a float other than 0 has MantLo <= |m| < MantHi
MantLo == Pow2(MantBits - 1)

MantHi == Pow2(MantBits)

\* the float nearest to sgn * (n / d) * 2^e, ties to even (n >= 0, d > 0)
RECURSIVE RoundFrac(_, _, _, _)
RoundFrac(sgn, n, d, e) ==
  IF n = 0 THEN FZero
  ELSE IF n < d * MantLo THEN RoundFrac(sgn, 2 * n, d, e - 1)
  ELSE IF n >= d * MantHi THEN RoundFrac(sgn, n, 2 * d, e + 1)
  ELSE LET q  == n \div d
           r  == n % d
           up == (2 * r > d) \/ (2 * r = d /\ q % 2 = 1)
           q1 == IF up THEN q + 1 ELSE q
       IN  IF q1 = MantHi
           THEN [m |-> sgn * MantLo, e |-> e + 1]
           ELSE [m |-> sgn * q1, e |-> e]

Sgn(x) == IF x < 0 THEN 0 - 1 ELSE 1

\* the float literal n / d
F(n, d) == RoundFrac(Sgn(n), Abs(n), d, 0)

FOne == F(1, 1)

\* x * y
FMul(x, y) ==
  RoundFrac(Sgn(x.m) * Sgn(y.m), Abs(x.m) * Abs(y.m), 1, x.e + y.e)

\* x / y, for y # 0
FDiv(x, y) ==
  RoundFrac(Sgn(x.m) * Sgn(y.m), Abs(x.m), Abs(y.m), x.e - y.e)

\* x < 0
FNeg(x) == x.m < 0

\* the integer nearest to n / d, ties to even (n >= 0, d > 0)
RoundDiv(n, d) ==
  LET q == n \div d
      r == n % d
  IN  IF (2 * r > d) \/ (2 * r = d /\ q % 2 = 1) THEN q + 1 ELSE q

\* format(x, ".6f"): the number of millionths that is printed
Fmt6(x) ==
  IF x.e >= 0 THEN x.m * Pow2(x.e) * 1000000
  ELSE Sgn(x.m) * RoundDiv(Abs(x.m) * 1000000, Pow2(0 - x.e))

----------------------------------------------------------------------------
(* Program constants and data *)

CACHE_TTL_SECS == 5 * 60

\* the two endpoints, in the order of the loop of _fetch_base_rates
Roots == <<"PRIMARY_BASE", "FALLBACK_BASE">>

usd == <<"u", "s", "d">>

eur == <<"e", "u", "r">>

gbp == <<"g", "b", "p">>

pkr == <<"p", "k", "r">>

\* the dictionary {} of rates
EmptyRates == [k \in {} |-> FZero]

\* rate tables the endpoints serve for base "usd"
UsdTable1 == [k \in {eur, pkr} |-> IF k = eur THEN F(9, 10) ELSE F(2781, 10)]

UsdTable2 ==
  [k \in {eur, pkr, gbp, usd} |->
     IF k = eur THEN F(4, 5)
     ELSE IF k = pkr THEN F(280, 1)
     ELSE IF k = gbp THEN F(3, 4)
     ELSE F(1, 1)]

\* rate tables the endpoints serve for another base
DirTable1 ==
  [k \in {eur, pkr, gbp, usd} |->
     IF k = eur THEN F(6, 5)
     ELSE IF k = pkr THEN F(741, 2)
     ELSE IF k = gbp THEN F(7, 8)
     ELSE F(5, 4)]

DirTable2 == [k \in {eur} |-> F(6, 5)]

\* a response: exc is an exception of _try_fetch (network error, HTTP error
\* status, body that is not a JSON object); otherwise data is the decoded JSON object,
\* with its "date" field (None when absent) and its other fields
NoDate == [none |-> TRUE, s |-> ""]

Exc == [exc |-> TRUE, date |-> NoDate, fields |-> [k \in {} |-> EmptyRates]]

Json(date, base, rates) ==
  [exc |-> FALSE, date |-> date, fields |-> [k \in {base} |-> rates]]

JsonNoBase(date) ==
  [exc |-> FALSE, date |-> date, fields |-> [k \in {} |-> EmptyRates]]

D(s) == [none |-> FALSE, s |-> s]

\* the well-formed answers to {root}/{base}.json
GoodAnswers(base) ==
  IF base = usd
  THEN { Json(D("2024-01-01"), usd, UsdTable1),
         Json(D("2024-01-02"), usd, UsdTable2),
         Json(D("2024-01-03"), usd, EmptyRates) }
  ELSE { Json(D("2024-02-01"), base, DirTable1),
         Json(D("2024-02-02"), base, DirTable2) }

\* the answers that lack an expected field
BadAnswers(base) ==
  { Json(NoDate, base, DirTable2), JsonNoBase(D("2024-03-01")),
    JsonNoBase(NoDate) }

\* what the two endpoints answer during one call of _fetch_base_rates
Net(base) == [{Roots[1], Roots[2]} -> {Exc} \cup GoodAnswers(base)]

NetAll(base) ==
  [{Roots[1], Roots[2]} -> {Exc} \cup GoodAnswers(base) \cup BadAnswers(base)]

----------------------------------------------------------------------------
(* _fetch_base_rates *)

\* (mutant: the date field is not asked for)
HasFieldsNoDate(data, base) == base \in DOMAIN data.fields

\* the test of line 26 on the decoded response
HasFields(data, base) == (~ data.date.none) /\ (base \in DOMAIN data.fields)

\* the loop over the two roots, from root number i on; tried is the list of
\* the requests made so far
RECURSIVE FetchLoop(_, _, _, _)
FetchLoop(base, net, i, tried) ==
  IF i > Len(Roots)
  THEN [raised |-> TRUE, date |-> NoDate, rates |-> EmptyRates,
        tried |-> tried]
  ELSE LET data == net[Roots[i]]
           log  == Append(tried, [root |-> Roots[i], data |-> data])
       IN  IF data.exc THEN FetchLoop(base, net, i + 1, log)
           ELSE IF HasFields(data, base)
           THEN [raised |-> FALSE, date |-> data.date,
                 rates |-> data.fields[base], tried |-> log]
           ELSE FetchLoop(base, net, i + 1, log)

\* _fetch_base_rates(base_code), the endpoints answering as net says
FetchBaseRates(base_code, net) == FetchLoop(Lower(base_code), net, 1, <<>>)

----------------------------------------------------------------------------
(* _get_usd_rates and available_codes *)

\* _cache as line 13 sets it
Cache0 == [ts |-> 0, date |-> NoDate, rates |-> EmptyRates]

\* the condition of line 34
CacheHit(force_refresh, c, t) ==
  (~ force_refresh) /\ (DOMAIN c.rates # {}) /\ (t - c.ts < CACHE_TTL_SECS)

\* (mutant: the timestamp is renewed before the fetch)
GetUsdRatesStampFirst(force_refresh, c, t, net) ==
  IF CacheHit(force_refresh, c, t)
  THEN [raised |-> FALSE, date |-> c.date, rates |-> c.rates, cache |-> c,
        fetches |-> <<>>]
  ELSE LET f == FetchBaseRates(usd, net)
       IN  IF f.raised
           THEN [raised |-> TRUE, date |-> NoDate, rates |-> EmptyRates,
                 cache |-> [c EXCEPT !.ts = t],
                 fetches |-> <<[by |-> "_get_usd_rates", base |-> usd,
                                raised |-> TRUE, tried |-> f.tried]>>]
           ELSE [raised |-> FALSE, date |-> f.date, rates |-> f.rates,
                 cache |-> [ts |-> t, date |-> f.date, rates |-> f.rates],
                 fetches |-> <<[by |-> "_get_usd_rates", base |-> usd,
                                raised |-> FALSE, tried |-> f.tried]>>]

\* _get_usd_rates(force_refresh) at time t with _cache = c: the outcome, the
\* cache it leaves and the call of _fetch_base_rates it made, if any
GetUsdRates(force_refresh, c, t, net) ==
  IF CacheHit(force_refresh, c, t)
  THEN [raised |-> FALSE, date |-> c.date, rates |-> c.rates, cache |-> c,
        fetches |-> <<>>]
  ELSE LET f == FetchBaseRates(usd, net)
       IN  IF f.raised
           THEN [raised |-> TRUE, date |-> NoDate, rates |-> EmptyRates,
                 cache |-> c,
                 fetches |-> <<[by |-> "_get_usd_rates", base |-> usd,
                                raised |-> TRUE, tried |-> f.tried]>>]
           ELSE [raised |-> FALSE, date |-> f.date, rates |-> f.rates,
                 cache |-> [ts |-> t, date |-> f.date, rates |-> f.rates],
                 fetches |-> <<[by |-> "_get_usd_rates", base |-> usd,
                                raised |-> FALSE, tried |-> f.tried]>>]

popular ==
  << <<"U", "S", "D">>, <<"E", "U", "R">>, <<"G", "B", "P">>,
     <<"P", "K", "R">>, <<"I", "N", "R">>, <<"A", "E", "D">>,
     <<"S", "A", "R">>, <<"U", "S", "D", "T">>, <<"C", "N", "Y">>,
     <<"J", "P", "Y">> >>

InSeq(x, q) == \E i \in 1..Len(q) : q[i] = x

\* [x for x in q if x in S]
RECURSIVE Filter(_, _)
Filter(q, S) ==
  IF q = <<>> THEN <<>>
  ELSE IF Head(q) \in S THEN <<Head(q)>> \o Filter(Tail(q), S)
  ELSE Filter(Tail(q), S)

\* (mutant: the popular codes come after the others)
OrderedCodesPopularLast(usd_rates) ==
  LET codes == {Upper(k) : k \in DOMAIN usd_rates} \cup {<<"U", "S", "D">>}
      rest  == Sorted({c \in codes : ~ InSeq(c, popular)})
  IN  rest \o Filter(popular, codes)

\* lines 42 to 46 on the table usd_rates
OrderedCodes(usd_rates) ==
  LET codes == {Upper(k) : k \in DOMAIN usd_rates} \cup {<<"U", "S", "D">>}
      rest  == Sorted({c \in codes : ~ InSeq(c, popular)})
  IN  Filter(popular, codes) \o rest

\* (mutant: the refresh is not forced)
AvailableCodesNotForced(c, t, net) ==
  LET g == GetUsdRates(FALSE, c, t, net)
  IN  [raised |-> g.raised, cache |-> g.cache, fetches |-> g.fetches,
       ordered |-> IF g.raised THEN <<>> ELSE OrderedCodes(g.rates)]

\* available_codes()
AvailableCodes(c, t, net) ==
  LET g == GetUsdRates(TRUE, c, t, net)
  IN  [raised |-> g.raised, cache |-> g.cache, fetches |-> g.fetches,
       ordered |-> IF g.raised THEN <<>> ELSE OrderedCodes(g.rates)]

----------------------------------------------------------------------------
(* convert *)

\* the amount handed to convert: None, a string, or the number n / d
NoneAmount == [t |-> "none", s |-> <<>>, n |-> 0, d |-> 1]

StrAmount(s) == [t |-> "str", s |-> s, n |-> 0, d |-> 1]

NumAmount(n, d) == [t |-> "num", s |-> <<>>, n |-> n, d |-> d]

\* the value of a string of decimal digits
RECURSIVE DigitsVal(_)
DigitsVal(s) ==
  IF s = <<>> THEN 0
  ELSE 10 * DigitsVal(SubSeq(s, 1, Len(s) - 1)) + (Ord[s[Len(s)]] - Ord["0"])

AllDigits(s) == s # <<>> /\ \A i \in 1..Len(s) : IsDigit(s[i])

\* float(amount): ok is FALSE when float() raises
ParseFloat(amount) ==
  IF amount.t = "none" THEN [ok |-> FALSE, v |-> FZero]
  ELSE IF amount.t = "num" THEN [ok |-> TRUE, v |-> F(amount.n, amount.d)]
  ELSE LET s    == Strip(amount.s)
           neg  == s # <<>> /\ Head(s) = "-"
           body == IF neg THEN Tail(s) ELSE s
       IN  IF AllDigits(body)
           THEN [ok |-> TRUE,
                 v  |-> F((IF neg THEN 0 - 1 ELSE 1) * DigitsVal(body), 1)]
           ELSE [ok |-> FALSE, v |-> FZero]

\* (mutant: the code is not lower-cased)
NormCodeNoLower(code) == Strip(OrEmpty(code))

\* (code or "").strip().lower()
NormCode(code) == Lower(Strip(OrEmpty(code)))

\* dict.get(k): some is FALSE when the result is None
Get(map, k) ==
  IF k \in DOMAIN map THEN [some |-> TRUE, v |-> map[k]]
  ELSE [some |-> FALSE, v |-> FZero]

\* lines 62 and 63
Resolve(code, usd_rates) ==
  IF code = usd THEN [some |-> TRUE, v |-> FOne] ELSE Get(usd_rates, code)

\* the first element of the pair convert returns: "" or "<num> <CODE>"
NoResult == [empty |-> TRUE, num |-> 0, code |-> <<>>]

Result(x, code) == [empty |-> FALSE, num |-> Fmt6(x), code |-> code]

\* the second element: the info message, with the values it is formatted from
Info(msg, from, to, rate, date) ==
  [msg |-> msg, from |-> from, to |-> to, rate |-> rate, date |-> date]

Msg(msg) == Info(msg, <<>>, <<>>, 0, NoDate)

Returned(result, info, c, fetches) ==
  [raised |-> FALSE, result |-> result, info |-> info, cache |-> c,
   fetches |-> fetches]

\* an exception leaves convert
Raised(err, c, fetches) ==
  [raised |-> TRUE, result |-> NoResult, info |-> Msg(err), cache |-> c,
   fetches |-> fetches]

\* (mutant: the message carries the date of the cached table)
ConvertDirectCachedDate(amt, a, b, from_code, to_code, g, netDir) ==
  LET d      == FetchBaseRates(a, netDir)
      direct == Get(d.rates, b)
      log    == Append(g.fetches,
                       [by |-> "convert", base |-> a, raised |-> d.raised,
                        tried |-> d.tried])
  IN  IF (~ d.raised) /\ direct.some
      THEN Returned(Result(FMul(amt, direct.v), Upper(to_code.s)),
                    Info("Rate: 1", Upper(from_code.s), Upper(to_code.s),
                         Fmt6(direct.v), g.date),
                    g.cache, log)
      ELSE Returned(NoResult,
                    Info("Pair not available", Upper(from_code.s),
                         Upper(to_code.s), 0, NoDate),
                    g.cache, log)

\* (mutant: the table of the direct fetch is stored in the cache)
ConvertDirectCaching(amt, a, b, from_code, to_code, g, netDir) ==
  LET d      == FetchBaseRates(a, netDir)
      direct == Get(d.rates, b)
      log    == Append(g.fetches,
                       [by |-> "convert", base |-> a, raised |-> d.raised,
                        tried |-> d.tried])
      stored == IF d.raised THEN g.cache
                ELSE [g.cache EXCEPT !.date = d.date, !.rates = d.rates]
  IN  IF (~ d.raised) /\ direct.some
      THEN Returned(Result(FMul(amt, direct.v), Upper(to_code.s)),
                    Info("Rate: 1", Upper(from_code.s), Upper(to_code.s),
                         Fmt6(direct.v), d.date),
                    stored, log)
      ELSE Returned(NoResult,
                    Info("Pair not available", Upper(from_code.s),
                         Upper(to_code.s), 0, NoDate),
                    stored, log)

\* lines 66 to 75: the direct fetch with from_code as the base
ConvertDirect(amt, a, b, from_code, to_code, g, netDir) ==
  LET d      == FetchBaseRates(a, netDir)
      direct == Get(d.rates, b)
      log    == Append(g.fetches,
                       [by |-> "convert", base |-> a, raised |-> d.raised,
                        tried |-> d.tried])
  IN  IF (~ d.raised) /\ direct.some
      THEN Returned(Result(FMul(amt, direct.v), Upper(to_code.s)),
                    Info("Rate: 1", Upper(from_code.s), Upper(to_code.s),
                         Fmt6(direct.v), d.date),
                    g.cache, log)
      ELSE Returned(NoResult,
                    Info("Pair not available", Upper(from_code.s),
                         Upper(to_code.s), 0, NoDate),
                    g.cache, log)

\* (mutant: the two rates are multiplied)
ConvertCrossProduct(amt, r_from, r_to, from_code, to_code, g) ==
  LET rate == FMul(r_to, r_from)
  IN  Returned(Result(FMul(amt, rate), Upper(to_code.s)),
               Info("1", Upper(from_code.s), Upper(to_code.s), Fmt6(rate),
                    g.date),
               g.cache, g.fetches)

\* (mutant: the quotient is taken the other way round)
ConvertCrossInverted(amt, r_from, r_to, from_code, to_code, g) ==
  LET rate == FDiv(r_from, r_to)
  IN  IF r_to.m = 0 THEN Raised("ZeroDivisionError", g.cache, g.fetches)
      ELSE
      Returned(Result(FMul(amt, rate), Upper(to_code.s)),
               Info("1", Upper(from_code.s), Upper(to_code.s), Fmt6(rate),
                    g.date),
               g.cache, g.fetches)

\* lines 77 to 79: the cross rate through USD
\* (r_to / r_from raises ZeroDivisionError for a rate of 0.0)
ConvertCross(amt, r_from, r_to, from_code, to_code, g) ==
  LET rate == FDiv(r_to, r_from)
  IN  IF r_from.m = 0 THEN Raised("ZeroDivisionError", g.cache, g.fetches)
      ELSE
      Returned(Result(FMul(amt, rate), Upper(to_code.s)),
               Info("1", Upper(from_code.s), Upper(to_code.s), Fmt6(rate),
                    g.date),
               g.cache, g.fetches)

\* (mutant: the second test is inverted)
NeedDirectInverted(r_from, r_to) == (~ r_from.some) \/ r_to.some

\* the condition of line 66
NeedDirect(r_from, r_to) == (~ r_from.some) \/ (~ r_to.some)

\* convert(amount, from_code, to_code) at time t with _cache = c
Convert(amount, from_code, to_code, c, t, netUsd, netDir) ==
  LET p == ParseFloat(amount)
      a == NormCode(from_code)
      b == NormCode(to_code)
  IN  IF ~ p.ok
      THEN Returned(NoResult, Msg("Invalid amount (must be a number)."),
                    c, <<>>)
      ELSE IF FNeg(p.v)
      THEN Returned(NoResult, Msg("Amount must be non-negative."), c, <<>>)
      ELSE IF a = <<>> \/ b = <<>>
      THEN Returned(NoResult, Msg("Please choose both currencies."), c, <<>>)
      ELSE LET g      == GetUsdRates(FALSE, c, t, netUsd)
               r_from == Resolve(a, g.rates)
               r_to   == Resolve(b, g.rates)
           IN  IF g.raised
               THEN Raised("Could not download rates from both sources.",
                           g.cache, g.fetches)
               ELSE IF NeedDirect(r_from, r_to)
               THEN ConvertDirect(p.v, a, b, from_code, to_code, g, netDir)
               ELSE ConvertCross(p.v, r_from.v, r_to.v, from_code, to_code, g)

----------------------------------------------------------------------------
(* The process: module start, then the three form handlers, one call at a  *)
(* time                                                                    *)

VARIABLES
  proc,    \* "starting", "running", or "crashed" (an exception at module level)
  now,     \* time.time()
  cache,   \* _cache
  codes,   \* the module-level list codes of line 82
  call,    \* the handler call being answered: its inputs, the cache it found,
           \* what it returned or raised, and the fetches it made
  threads  \* the calls of _get_usd_rates that run concurrently: for each
           \* session its position in the function and its local variables

vars == <<proc, now, cache, codes, call, threads>>

\* the sessions that are served concurrently
Sessions == {"s1", "s2"}

IdleThread ==
  [pc |-> "idle", force |-> FALSE, now |-> 0, date |-> NoDate,
   rates |-> EmptyRates, raised |-> FALSE]

Idle == [op |-> "idle"]

\* the amounts a client can submit
Amounts ==
  { NoneAmount, StrAmount(<<"a", "b", "c">>), StrAmount(<<" ", "0", " ">>),
    NumAmount(0 - 1, 1), NumAmount(5, 2) }

\* the currency codes a client can submit
InputCodes ==
  { NoneStr, Str(<<" ">>), Str(<<"U", "S", "D">>), Str(<<"E", "U", "R">>),
    Str(<<" ", "e", "u", "r", " ">>), Str(<<"P", "K", "R">>),
    Str(<<"g", "b", "p">>) }

Init ==
  /\ proc = "starting"
  /\ now = Now0
  /\ cache = Cache0
  /\ codes = <<>>
  /\ call = Idle
  /\ threads = [s \in Sessions |-> IdleThread]

\* line 82: codes = available_codes(), outside any try
Startup ==
  /\ proc = "starting"
  /\ \E net \in Net(usd) :
       LET r == AvailableCodes(cache, now, net)
       IN  /\ proc' = IF r.raised THEN "crashed" ELSE "running"
           /\ cache' = r.cache
           /\ codes' = r.ordered
           /\ call' = [op |-> "startup", cache0 |-> cache, raised |-> r.raised,
                       fetches |-> r.fetches]
  /\ UNCHANGED <<now, threads>>

\* the answers of the endpoints are drawn only for the fetches a call makes;
\* for a fetch that is not made the endpoints stay silent
Silent == [r \in {Roots[1], Roots[2]} |-> Exc]

Valid(amount, from_code, to_code) ==
  /\ ParseFloat(amount).ok
  /\ ~ FNeg(ParseFloat(amount).v)
  /\ NormCode(from_code) # <<>>
  /\ NormCode(to_code) # <<>>

UsdNets(amount, from_code, to_code) ==
  IF Valid(amount, from_code, to_code) /\ ~ CacheHit(FALSE, cache, now)
  THEN Net(usd) ELSE {Silent}

DirNets(amount, from_code, to_code, netUsd) ==
  LET g == GetUsdRates(FALSE, cache, now, netUsd)
  IN  IF /\ Valid(amount, from_code, to_code)
         /\ ~ g.raised
         /\ NeedDirect(Resolve(NormCode(from_code), g.rates),
                       Resolve(NormCode(to_code), g.rates))
      THEN Net(NormCode(from_code)) ELSE {Silent}

\* on_convert
OnConvert ==
  /\ proc = "running" /\ call = Idle
  /\ \E amount \in Amounts, from_code \in InputCodes, to_code \in InputCodes :
       \E netUsd \in UsdNets(amount, from_code, to_code) :
         \E netDir \in DirNets(amount, from_code, to_code, netUsd) :
           LET r == Convert(amount, from_code, to_code, cache, now, netUsd,
                            netDir)
           IN  /\ cache' = r.cache
               /\ call' = [op |-> "convert", amount |-> amount,
                           from_code |-> from_code, to_code |-> to_code,
                           cache0 |-> cache, raised |-> r.raised,
                           result |-> r.result, info |-> r.info,
                           fetches |-> r.fetches]
  /\ UNCHANGED <<proc, now, codes, threads>>

\* (mutant: the first dropdown keeps its code)
SwapSecondOnly(f, t) == [from_dd |-> f, to_dd |-> f]

\* what on_swap(f, t) returns for the two dropdowns
Swap(f, t) == [from_dd |-> t, to_dd |-> f]

\* on_swap
OnSwap ==
  /\ proc = "running" /\ call = Idle
  /\ \E f \in InputCodes, t \in InputCodes :
       call' = [op |-> "swap", f |-> f, t |-> t, cache0 |-> cache,
                raised |-> FALSE, from_dd |-> Swap(f, t).from_dd,
                to_dd |-> Swap(f, t).to_dd, fetches |-> <<>>]
  /\ UNCHANGED <<proc, now, cache, codes, threads>>

\* on_refresh: _get_usd_rates(force_refresh=True), then available_codes()
OnRefresh ==
  /\ proc = "running" /\ call = Idle
  /\ \E net1 \in Net(usd), net2 \in Net(usd) :
       LET g == GetUsdRates(TRUE, cache, now, net1)
           r == AvailableCodes(g.cache, now, net2)
       IN  IF g.raised
           THEN /\ cache' = g.cache
                /\ call' = [op |-> "refresh", cache0 |-> cache,
                            raised |-> TRUE, choices |-> <<>>,
                            fetches |-> g.fetches]
           ELSE /\ cache' = r.cache
                /\ call' = [op |-> "refresh", cache0 |-> cache,
                            raised |-> r.raised, choices |-> r.ordered,
                            fetches |-> g.fetches \o r.fetches]
  /\ UNCHANGED <<proc, now, codes, threads>>

\* the answer of the handler is delivered and the next event can be served
Respond ==
  /\ proc = "running" /\ call # Idle
  /\ call' = Idle
  /\ UNCHANGED <<proc, now, cache, codes, threads>>

\* time passes between two events
Tick ==
  /\ proc = "running" /\ call = Idle
  /\ \E d \in TickSteps : now + d <= MaxNow /\ now' = now + d
  /\ UNCHANGED <<proc, cache, codes, call, threads>>

Next == Startup \/ OnConvert \/ OnSwap \/ OnRefresh \/ Respond \/ Tick

Spec == Init /\ [][Next]_vars

----------------------------------------------------------------------------
(* _fetch_base_rates alone, on every pair of answers of the two endpoints  *)

FetchBases == {usd, <<"G", "B", "P">>, eur}

InitFetch ==
  /\ proc = "running"
  /\ now = Now0
  /\ cache = Cache0
  /\ codes = <<>>
  /\ threads = [s \in Sessions |-> IdleThread]
  /\ \E base \in FetchBases : \E net \in NetAll(Lower(base)) :
       call = [op |-> "fetch_args", base_code |-> base, net |-> net]

CallFetch ==
  /\ call.op = "fetch_args"
  /\ call' = [op |-> "fetch", base_code |-> call.base_code, net |-> call.net,
              ret |-> FetchBaseRates(call.base_code, call.net)]
  /\ UNCHANGED <<proc, now, cache, codes, threads>>

NextFetch == CallFetch

SpecFetch == InitFetch /\ [][NextFetch]_vars

----------------------------------------------------------------------------
(* available_codes alone, on every set of codes the source can serve       *)

\* the codes a served table is made of
CodePool ==
  { usd, eur, gbp, pkr, <<"u", "s", "d", "t">>, <<"j", "p", "y">>,
    <<"1", "i", "n", "c", "h">>, <<"a", "u", "d">>, <<"z", "a", "r">> }

InitCodes ==
  /\ proc = "running"
  /\ now = Now0
  /\ cache = Cache0
  /\ codes = <<>>
  /\ threads = [s \in Sessions |-> IdleThread]
  /\ \E keys \in SUBSET CodePool :
       call = [op |-> "codes_args", usd_rates |-> [k \in keys |-> FOne]]

CallCodes ==
  /\ call.op = "codes_args"
  /\ LET answer == Json(D("2024-01-01"), usd, call.usd_rates)
         r      == AvailableCodes(cache, now, [x \in {Roots[1], Roots[2]} |-> answer])
     IN  /\ call' = [op |-> "codes", usd_rates |-> call.usd_rates,
                     raised |-> r.raised, ordered |-> r.ordered]
         /\ cache' = r.cache
  /\ UNCHANGED <<proc, now, codes, threads>>

NextCodes == CallCodes

SpecCodes == InitCodes /\ [][NextCodes]_vars

----------------------------------------------------------------------------
(* _get_usd_rates called by concurrent sessions: each line of the function *)
(* is a step, and the steps of the sessions interleave.  The function      *)
(* takes no lock.  A read of one key of _cache and the call of             *)
(* _cache.update are each atomic.                                          *)

InitConc ==
  /\ proc = "running"
  /\ now = Now0
  /\ cache = Cache0
  /\ codes = <<>>
  /\ call = Idle
  /\ threads = [s \in Sessions |-> IdleThread]

Th(s) == threads[s]

\* line 33: now = time.time()
TCall(s) ==
  /\ Th(s).pc = "idle"
  /\ \E force_refresh \in BOOLEAN :
       threads' = [threads EXCEPT ![s] =
                     [IdleThread EXCEPT !.pc = "check",
                                        !.force = force_refresh, !.now = now]]
  /\ UNCHANGED <<proc, now, cache, codes, call>>

\* line 34: (not force_refresh) and _cache["rates"]
TCheckRates(s) ==
  /\ Th(s).pc = "check"
  /\ threads' = [threads EXCEPT ![s].pc =
                   IF (~ Th(s).force) /\ DOMAIN cache.rates # {}
                   THEN "check_ts" ELSE "fetch"]
  /\ UNCHANGED <<proc, now, cache, codes, call>>

\* line 34: now - _cache["ts"] < CACHE_TTL_SECS
TCheckTs(s) ==
  /\ Th(s).pc = "check_ts"
  /\ threads' = [threads EXCEPT ![s].pc =
                   IF Th(s).now - cache.ts < CACHE_TTL_SECS
                   THEN "read_date" ELSE "fetch"]
  /\ UNCHANGED <<proc, now, cache, codes, call>>

\* line 35: _cache["date"]
TReadDate(s) ==
  /\ Th(s).pc = "read_date"
  /\ threads' = [threads EXCEPT ![s].pc = "read_rates",
                                ![s].date = cache.date]
  /\ UNCHANGED <<proc, now, cache, codes, call>>

\* line 35: _cache["rates"], and the return
TReadRates(s) ==
  /\ Th(s).pc = "read_rates"
  /\ threads' = [threads EXCEPT ![s].pc = "done", ![s].rates = cache.rates]
  /\ UNCHANGED <<proc, now, cache, codes, call>>

\* line 36: date, rates = _fetch_base_rates("usd")
TFetch(s) ==
  /\ Th(s).pc = "fetch"
  /\ \E net \in Net(usd) :
       LET f == FetchBaseRates(usd, net)
       IN  threads' = [threads EXCEPT ![s] =
                         IF f.raised
                         THEN [@ EXCEPT !.pc = "done", !.raised = TRUE]
                         ELSE [@ EXCEPT !.pc = "store", !.date = f.date,
                                        !.rates = f.rates]]
  /\ UNCHANGED <<proc, now, cache, codes, call>>

\* lines 37 and 38: _cache.update(ts=now, date=date, rates=rates), and the
\* return
TStore(s) ==
  /\ Th(s).pc = "store"
  /\ cache' = [ts |-> Th(s).now, date |-> Th(s).date, rates |-> Th(s).rates]
  /\ threads' = [threads EXCEPT ![s].pc = "done"]
  /\ UNCHANGED <<proc, now, codes, call>>

\* the caller has the result, or the exception
TReturn(s) ==
  /\ Th(s).pc = "done"
  /\ threads' = [threads EXCEPT ![s] = IdleThread]
  /\ UNCHANGED <<proc, now, cache, codes, call>>

\* time passes
TTick ==
  /\ now + CACHE_TTL_SECS <= MaxNow
  /\ now' = now + CACHE_TTL_SECS
  /\ UNCHANGED <<proc, cache, codes, call, threads>>

NextConc ==
  \/ \E s \in Sessions :
       \/ TCall(s)
       \/ TCheckRates(s)
       \/ TCheckTs(s)
       \/ TReadDate(s)
       \/ TReadRates(s)
       \/ TFetch(s)
       \/ TStore(s)
       \/ TReturn(s)
  \/ TTick

SpecConc == InitConc /\ [][NextConc]_vars

----------------------------------------------------------------------------
(* What the claims are stated with: the meaning of the submitted inputs,   *)
(* written out input by input, and what the record of a call says          *)

\* the amount is a number
IsNumeric(amount) == amount.t = "num" \/ amount = StrAmount(<<" ", "0", " ">>)

\* the amount is a number below 0
IsNegative(amount) == amount.t = "num" /\ amount.n < 0

\* the number the amount stands for
ValueOf(amount) == IF amount.t = "num" THEN F(amount.n, amount.d) ELSE FZero

\* the currency a submitted code names: trimmed, in lower case
KeyOf(code) ==
  IF code \in {Str(<<"E", "U", "R">>), Str(<<" ", "e", "u", "r", " ">>)}
  THEN eur
  ELSE IF code = Str(<<"U", "S", "D">>) THEN usd
  ELSE IF code = Str(<<"P", "K", "R">>) THEN pkr
  ELSE IF code = Str(<<"g", "b", "p">>) THEN gbp
  ELSE <<>>

\* the code as the messages show it
ShownAs(code) ==
  IF code = Str(<<" ", "e", "u", "r", " ">>) THEN <<" ", "E", "U", "R", " ">>
  ELSE IF code = Str(<<"g", "b", "p">>) THEN <<"G", "B", "P">>
  ELSE code.s

ConvertCall == call.op = "convert"

\* a convert call whose inputs pass the validation
Checked ==
  /\ ConvertCall
  /\ IsNumeric(call.amount) /\ ~ IsNegative(call.amount)
  /\ KeyOf(call.from_code) # <<>> /\ KeyOf(call.to_code) # <<>>

\* the call made _get_usd_rates fetch
UsdFetched == call.fetches # <<>> /\ call.fetches[1].by = "_get_usd_rates"

\* the direct fetches of the call
DirectFetches == {i \in DOMAIN call.fetches : call.fetches[i].by = "convert"}

\* the answer a successful fetch returned
Answer(fetch) == fetch.tried[Len(fetch.tried)].data

\* _get_usd_rates gave the call a table
GotTable == ConvertCall /\ (UsdFetched => ~ call.fetches[1].raised)

\* the table and the date it gave
TableUsed ==
  IF UsdFetched THEN Answer(call.fetches[1]).fields[usd] ELSE call.cache0.rates

DateUsed ==
  IF UsdFetched THEN Answer(call.fetches[1]).date ELSE call.cache0.date

Resolves(k) == k = usd \/ k \in DOMAIN TableUsed

RateOf(k) == IF k = usd THEN FOne ELSE TableUsed[k]

BothResolve == Resolves(KeyOf(call.from_code)) /\ Resolves(KeyOf(call.to_code))

----------------------------------------------------------------------------
(* The claims *)

\* C1 (as claimed): convert never lets an error escape to its caller; every
\* call returns a (result, info) pair.
C1_ConvertNeverRaises == ConvertCall => ~ call.raised

\* C2 (as claimed): a call of getUsdRates(false) whose fetch succeeds fetches
\* exactly when no table is cached or the cached table is at least 300
\* seconds old, whatever table the source returned before.
C2_FetchIffEmptyOrExpired ==
  (Checked /\ ~ call.raised) =>
    (UsdFetched <=> (call.cache0.date.none
                       \/ now - call.cache0.ts >= CACHE_TTL_SECS))

\* C3 (as claimed): convert fetches directly only when both codes have no
\* rate in the cached USD table.
C3_DirectOnlyIfBothMissing ==
  (ConvertCall /\ DirectFetches # {}) =>
    (~ Resolves(KeyOf(call.from_code)) /\ ~ Resolves(KeyOf(call.to_code)))

\* C3 (amended): convert fetches directly only when at least one of the two
\* codes has no rate in the cached USD table; when both resolve it makes no
\* direct fetch.
C3_DirectOnlyIfSomeMissing ==
  (ConvertCall /\ DirectFetches # {}) => (Checked /\ GotTable /\ ~ BothResolve)

C3_Witness ==
  /\ ConvertCall /\ DirectFetches # {}
  /\ Resolves(KeyOf(call.from_code)) /\ ~ Resolves(KeyOf(call.to_code))

\* C4: fetchBaseRates asks the primary endpoint first and the fallback only
\* after the primary attempt failed (exception, or no date field, or no field
\* named after the lower-cased base); it returns what the first successful
\* attempt answered and raises exactly when both attempts failed.
C4_Failed(data, base) ==
  data.exc \/ data.date.none \/ base \notin DOMAIN data.fields

C4_Base == IF call.base_code = <<"G", "B", "P">> THEN gbp ELSE call.base_code

C4_FetchOrder ==
  call.op = "fetch" =>
    LET r    == call.ret
        p    == call.net["PRIMARY_BASE"]
        f    == call.net["FALLBACK_BASE"]
        from == IF C4_Failed(p, C4_Base) THEN f ELSE p
    IN  /\ Len(r.tried) \in {1, 2}
        /\ r.tried[1] = [root |-> "PRIMARY_BASE", data |-> p]
        /\ (Len(r.tried) = 2) <=> C4_Failed(p, C4_Base)
        /\ (Len(r.tried) = 2) =>
             r.tried[2] = [root |-> "FALLBACK_BASE", data |-> f]
        /\ r.raised <=> (C4_Failed(p, C4_Base) /\ C4_Failed(f, C4_Base))
        /\ (~ r.raised) =>
             (r.date = from.date /\ r.rates = from.fields[C4_Base])

C4_Witness ==
  /\ call.op = "fetch"
  /\ ~ call.net["PRIMARY_BASE"].exc
  /\ C4_Failed(call.net["PRIMARY_BASE"], C4_Base)
  /\ ~ call.ret.raised
  /\ call.base_code = <<"G", "B", "P">>

\* C5 (as claimed): the check-then-fetch-then-store of getUsdRates runs under
\* mutual exclusion: two concurrent non-forced calls are never both between
\* their failed cache check and their store, so they never both fetch.
C5_InSection(s) == (~ Th(s).force) /\ Th(s).pc \in {"fetch", "store"}

C5_MutualExclusion ==
  \A s1 \in Sessions, s2 \in Sessions :
    (s1 # s2) => ~ (C5_InSection(s1) /\ C5_InSection(s2))

\* C6: for an amount >= 0 and two codes that both resolve in the USD table
\* the call works with ("usd" as 1.0, any other code as its entry), convert
\* makes no direct fetch and returns amount * (rateTo / rateFrom), the rate
\* rateTo / rateFrom and the date of that table, each printed with 6
\* decimals; the answer is a function of the inputs and the table alone.
C6_Rate == FDiv(RateOf(KeyOf(call.to_code)), RateOf(KeyOf(call.from_code)))

C6_CrossRate ==
  (Checked /\ GotTable /\ BothResolve) =>
    /\ DirectFetches = {}
    /\ ~ call.raised
    /\ call.result = [empty |-> FALSE,
                      num |-> Fmt6(FMul(ValueOf(call.amount), C6_Rate)),
                      code |-> ShownAs(call.to_code)]
    /\ call.info = [msg |-> "1", from |-> ShownAs(call.from_code),
                    to |-> ShownAs(call.to_code), rate |-> Fmt6(C6_Rate),
                    date |-> DateUsed]

C6_Witness ==
  /\ Checked /\ GotTable /\ BothResolve
  /\ KeyOf(call.from_code) = eur /\ KeyOf(call.to_code) = pkr
  /\ call.amount = NumAmount(5, 2)
  /\ call.result.num > 0
  /\ call.info.rate # 1000000

\* C7: when fromCode or toCode does not resolve in the USD table the call
\* works with, convert makes one direct fetch with base fromCode; it returns
\* amount * directRate, that rate and the date of the direct fetch exactly
\* when the fetch succeeds and its table has toCode, and otherwise the
\* failure "Pair not available" that names both codes.
C7_Fetch == call.fetches[Len(call.fetches)]

C7_Table == Answer(C7_Fetch).fields[KeyOf(call.from_code)]

C7_Found == (~ C7_Fetch.raised) /\ KeyOf(call.to_code) \in DOMAIN C7_Table

C7_DirectRate ==
  (Checked /\ GotTable /\ ~ BothResolve) =>
    /\ Cardinality(DirectFetches) = 1
    /\ C7_Fetch.by = "convert"
    /\ C7_Fetch.base = KeyOf(call.from_code)
    /\ ~ call.raised
    /\ IF C7_Found
       THEN /\ call.result =
                 [empty |-> FALSE,
                  num |-> Fmt6(FMul(ValueOf(call.amount),
                                    C7_Table[KeyOf(call.to_code)])),
                  code |-> ShownAs(call.to_code)]
            /\ call.info =
                 [msg |-> "Rate: 1", from |-> ShownAs(call.from_code),
                  to |-> ShownAs(call.to_code),
                  rate |-> Fmt6(C7_Table[KeyOf(call.to_code)]),
                  date |-> Answer(C7_Fetch).date]
       ELSE /\ call.result = NoResult
            /\ call.info =
                 [msg |-> "Pair not available",
                  from |-> ShownAs(call.from_code),
                  to |-> ShownAs(call.to_code), rate |-> 0, date |-> NoDate]

C7_Witness ==
  /\ Checked /\ GotTable /\ ~ BothResolve
  /\ C7_Found
  /\ call.info.msg = "Rate: 1"
  /\ call.info.date # cache.date
  /\ call.result.num > 0

\* C8: the cache only ever changes to the table _get_usd_rates fetched with
\* base USD: after a convert call it holds that table, stamped with the time
\* of the call, or else what it held before; the direct fetch, successful or
\* not, leaves timestamp, date and rates alone, so every conversion of a pair
\* the table lacks makes its own direct fetch.
C8_DirectNotCached ==
  ConvertCall =>
    /\ cache = IF UsdFetched /\ ~ call.fetches[1].raised
               THEN [ts |-> now, date |-> Answer(call.fetches[1]).date,
                     rates |-> Answer(call.fetches[1]).fields[usd]]
               ELSE call.cache0
    /\ (Checked /\ GotTable /\ ~ BothResolve) => DirectFetches # {}

C8_Witness ==
  /\ ConvertCall /\ ~ UsdFetched
  /\ DirectFetches # {}
  /\ ~ C7_Fetch.raised
  /\ cache = call.cache0
  /\ cache.rates # C7_Table

\* C9 (as claimed): a fetch failure while the choice list is built is
\* handled by the caller of availableCodes(): the process survives it at
\* startup, and on_refresh does not let it escape.
C9_ListFailureHandled ==
  /\ proc # "crashed"
  /\ (call.op = "refresh") => ~ call.raised

\* C10: convert fails with the first violation in the order InvalidAmount
\* (amount not a number), NegativeAmount (amount < 0), MissingCurrency (a
\* code None or empty after trimming) and with none of them otherwise; codes
\* that differ only in letter case or surrounding blanks resolve the same
\* rates.
C10_Failures ==
  { "Invalid amount (must be a number).", "Amount must be non-negative.",
    "Please choose both currencies." }

C10_Expected ==
  IF ~ IsNumeric(call.amount) THEN "Invalid amount (must be a number)."
  ELSE IF IsNegative(call.amount) THEN "Amount must be non-negative."
  ELSE IF KeyOf(call.from_code) = <<>> \/ KeyOf(call.to_code) = <<>>
  THEN "Please choose both currencies."
  ELSE call.info.msg

C10_ValidationOrder ==
  ConvertCall =>
    /\ call.info.msg = C10_Expected
    /\ (call.info.msg \in C10_Failures) <=> ~ Checked
    /\ (call.info.msg \in C10_Failures) =>
         (call.result = NoResult /\ call.info = Msg(call.info.msg))
    /\ (Checked /\ GotTable) =>
         /\ (call.info.msg = "1") <=> BothResolve
         /\ (call.info.msg = "1") => call.info.rate = Fmt6(C6_Rate)

C10_Witness ==
  /\ Checked /\ call.info.msg = "1"
  /\ call.from_code = Str(<<" ", "e", "u", "r", " ">>)
  /\ call.to_code = Str(<<"P", "K", "R">>)

\* C11: for two codes A and B that both resolve in the cached USD table and
\* an amount >= 0, converting A -> B and then the number that was returned
\* B -> A, the cache being the same, gives the amount back within the
\* tolerance of the float arithmetic, and rate(A -> B) * rate(B -> A) is 1
\* within that tolerance.
C11_Back ==
  Convert(NumAmount(call.result.num, 1000000), call.to_code, call.from_code,
          cache, now, Silent, Silent)

\* x is 1 up to 4 units in the last place of the mantissa
C11_NearOne(x) ==
  /\ x.e \in {0 - MantBits, 1 - MantBits}
  /\ Abs(x.m * Pow2(x.e + MantBits) - MantHi) <= 4

\* the printed amounts n and k (in millionths) differ by no more than 8 units
\* in the last place of the mantissa, and one millionth
C11_Close(n, k) == Abs(n - k) * (MantHi \div 8) <= k + MantHi

C11_RoundTripCase ==
  /\ Checked /\ GotTable /\ BothResolve /\ ~ call.raised
  /\ CacheHit(FALSE, cache, now)

C11_RoundTrip ==
  C11_RoundTripCase =>
    /\ ~ C11_Back.raised
    /\ C11_Back.fetches = <<>>
    /\ C11_Back.info.msg = "1"
    /\ C11_Back.result.code = ShownAs(call.from_code)
    /\ C11_Close(C11_Back.result.num, Fmt6(ValueOf(call.amount)))
    /\ C11_NearOne(FMul(C6_Rate,
                        FDiv(RateOf(KeyOf(call.from_code)),
                             RateOf(KeyOf(call.to_code)))))

C11_Witness ==
  /\ C11_RoundTripCase
  /\ KeyOf(call.from_code) = gbp /\ KeyOf(call.to_code) = eur
  /\ call.amount = NumAmount(5, 2)
  /\ C11_Back.result.num # Fmt6(ValueOf(call.amount))
  /\ C11_Close(C11_Back.result.num, Fmt6(ValueOf(call.amount)))

\* the codes of the model, lower and upper case, in the order in which
\* availableCodes() is to list them: the popular ones, then the others
C13_Order ==
  << <<usd, <<"U", "S", "D">> >>, <<eur, <<"E", "U", "R">> >>,
     <<gbp, <<"G", "B", "P">> >>, <<pkr, <<"P", "K", "R">> >>,
     << <<"u", "s", "d", "t">>, <<"U", "S", "D", "T">> >>,
     << <<"j", "p", "y">>, <<"J", "P", "Y">> >>,
     << <<"1", "i", "n", "c", "h">>, <<"1", "I", "N", "C", "H">> >>,
     << <<"a", "u", "d">>, <<"A", "U", "D">> >>,
     << <<"z", "a", "r">>, <<"Z", "A", "R">> >> >>

\* the list expected for the table usd_rates
RECURSIVE C13_Pick(_, _)
C13_Pick(usd_rates, i) ==
  IF i > Len(C13_Order) THEN <<>>
  ELSE (IF C13_Order[i][1] = usd \/ C13_Order[i][1] \in DOMAIN usd_rates
        THEN <<C13_Order[i][2]>> ELSE <<>>) \o C13_Pick(usd_rates, i + 1)

C13_Expected(usd_rates) == C13_Pick(usd_rates, 1)

\* C12: availableCodes() fetches the USD table on every call, whatever the
\* age of the cache, and a successful call leaves in the cache exactly the
\* table of that fetch, stamped with the time of the call; a Refresh Rates
\* action that succeeds ends with the cache and the choice lists of both
\* dropdowns made from a table fetched during the action.
C12_Last == call.fetches[Len(call.fetches)]

C12_ForceRefresh ==
  (call.op \in {"startup", "refresh"}) =>
    /\ Len(call.fetches) \in {1, 2}
    /\ \A i \in DOMAIN call.fetches : call.fetches[i].by = "_get_usd_rates"
    /\ call.raised <=> C12_Last.raised
    /\ (call.op = "refresh" /\ ~ call.fetches[1].raised) =>
         Len(call.fetches) = 2
    /\ (~ call.raised) =>
         /\ call.op = "refresh" => Len(call.fetches) = 2
         /\ cache = [ts |-> now, date |-> Answer(C12_Last).date,
                     rates |-> Answer(C12_Last).fields[usd]]
         /\ call.op = "refresh" =>
              call.choices = C13_Expected(Answer(C12_Last).fields[usd])
         /\ call.op = "startup" =>
              codes = C13_Expected(Answer(C12_Last).fields[usd])

C12_Witness ==
  /\ call.op = "refresh" /\ ~ call.raised
  /\ call.cache0.rates = UsdTable2
  /\ now - call.cache0.ts < CACHE_TTL_SECS
  /\ cache.rates = UsdTable1
  /\ Answer(call.fetches[1]).fields[usd] = UsdTable2
  /\ Len(call.choices) = 3

\* C13: availableCodes() returns every fetched code and "USD", upper-cased
\* and without duplicates: first the members of the popular list that are
\* present, in the order of that list, then the others in lexicographic
\* order; "USD" is always there and always first.
C13_Ordering ==
  call.op = "codes" =>
    /\ ~ call.raised
    /\ call.ordered = C13_Expected(call.usd_rates)
    /\ call.ordered[1] = <<"U", "S", "D">>
    /\ \A i \in DOMAIN call.ordered, j \in DOMAIN call.ordered :
         (i # j) => call.ordered[i] # call.ordered[j]
    /\ Len(call.ordered) = Cardinality(DOMAIN call.usd_rates \cup {usd})

C13_Witness ==
  /\ call.op = "codes"
  /\ DOMAIN call.usd_rates =
       {pkr, eur, <<"z", "a", "r">>, <<"1", "i", "n", "c", "h">>,
        <<"j", "p", "y">>}
  /\ Len(call.ordered) = 6

\* C14: when _get_usd_rates has to fetch and both endpoints fail, the call
\* raises and the cache (timestamp, date, rates) is what it was before the
\* call; a table that is 300 seconds old or older stays in the cache but no
\* non-forced call answers from it.
C14_Expired == now - call.cache0.ts >= CACHE_TTL_SECS

C14_FailedRefresh ==
  /\ (call.op \in {"convert", "startup", "refresh"} /\ call.fetches # <<>>
        /\ call.fetches[1].by = "_get_usd_rates" /\ call.fetches[1].raised) =>
       /\ call.raised
       /\ Len(call.fetches) = 1
       /\ Len(call.fetches[1].tried) = 2
       /\ cache = call.cache0
  /\ (call.op = "refresh" /\ call.raised /\ ~ call.fetches[1].raised) =>
       cache = [ts |-> now, date |-> Answer(call.fetches[1]).date,
                rates |-> Answer(call.fetches[1]).fields[usd]]
  /\ (Checked /\ C14_Expired) =>
       /\ UsdFetched
       /\ call.fetches[1].raised =>
            (call.raised /\ call.result = NoResult)
       /\ (~ call.fetches[1].raised /\ BothResolve) =>
            call.info.date = Answer(call.fetches[1]).date

C14_Witness ==
  /\ Checked /\ C14_Expired
  /\ call.raised
  /\ cache = call.cache0
  /\ cache.rates = UsdTable1

\* C15 (as claimed): under every interleaving of concurrent calls of
\* _get_usd_rates, the (date, rates) a call returns stem from one fetch, and
\* so do the timestamp, date and rates the cache holds.
C15_OneFetch(date, rates) ==
  \E answer \in GoodAnswers(usd) :
    date = answer.date /\ rates = answer.fields[usd]

C15_PairFromOneFetch ==
  /\ \A s \in Sessions :
       (Th(s).pc = "done" /\ ~ Th(s).raised) =>
         C15_OneFetch(Th(s).date, Th(s).rates)
  /\ (cache # Cache0) => C15_OneFetch(cache.date, cache.rates)

\* C16: a convert call that fails the validation of its inputs contacts no
\* endpoint and leaves the cache as it is, whatever the age of the cache;
\* on_swap returns the two codes exchanged, so that swapping twice gives the
\* selection back, and it neither fetches nor touches the cache.
C16_NoFetchWhenInvalid ==
  /\ (ConvertCall /\ ~ Checked) =>
       /\ ~ call.raised
       /\ call.info.msg \in C10_Failures
       /\ call.fetches = <<>>
       /\ cache = call.cache0
  /\ (call.op = "swap") =>
       /\ call.from_dd = call.t /\ call.to_dd = call.f
       /\ Swap(call.from_dd, call.to_dd) = [from_dd |-> call.f, to_dd |-> call.t]
       /\ call.fetches = <<>>
       /\ cache = call.cache0

C16_Witness ==
  /\ ConvertCall /\ ~ Checked
  /\ IsNumeric(call.amount) /\ ~ IsNegative(call.amount)
  /\ now - call.cache0.ts >= CACHE_TTL_SECS
  /\ call.fetches = <<>>

====
